---- MODULE Spec2Model ----
(***************************************************************************)
(* Model of the camera page of ijfang/photobooth.                          *)
(*                                                                         *)
(* Two specifications share the variables of this module:                  *)
(*   Spec        the WebcamComponent state machine (imgSrc, error, the     *)
(*               mounted Webcam, the applyVintageFilter promises in        *)
(*               flight) driven by capture, retake, handleUserMediaError   *)
(*               and the completion of a filter run;                       *)
(*   FilterSpec  one applyVintageFilter call on a decoded pixel buffer:    *)
(*               the five passes over imageData.data and the promise.      *)
(*                                                                         *)
(* Numbers.  imageData.data is a Uint8ClampedArray: every store converts   *)
(* the stored number to an integer in 0..255 (round to nearest, ties to    *)
(* even, then clamp).  The passes are modelled in exact rational           *)
(* arithmetic on integers, the square root of the vignette included: a     *)
(* comparison with b * sqrt(N) is decided on the squares.                  *)
(***************************************************************************)
EXTENDS Integers, Sequences, FiniteSets, TLC

VARIABLES
    imgSrc,      \* useState imgSrc: ImgNull or the image shown
    error,       \* useState error: ErrNull or the message shown
    webcam,      \* the <Webcam> element: "unmounted", "acquiring" or "live"
    runs,        \* runs[c]: state of the applyVintageFilter promise of capture c
    nextCap,     \* number of captures that obtained a screenshot
    retakeAt,    \* value of nextCap at the most recent retake
    lastOp,      \* the handler that ran last
    lastErr,     \* the argument of the last handleUserMediaError call
    width,       \* canvas.width  (FilterSpec)
    height,      \* canvas.height (FilterSpec)
    input,       \* the pixels drawImage put on the canvas (FilterSpec)
    grains,      \* the Math.random() draws of the grain pass, one per pixel
    data,        \* imageData.data written back with putImageData
    promise,     \* the promise of applyVintageFilter: "pending" or "resolved"
    imgState,    \* the Image element: "loading", "loaded" or "error"
    result       \* what the promise resolved with: "none", "original", "filtered"

uiVars == <<imgSrc, error, webcam, runs, nextCap, retakeAt, lastOp, lastErr>>
filterVars == <<width, height, input, grains, data, promise, imgState, result>>
vars == <<imgSrc, error, webcam, runs, nextCap, retakeAt, lastOp, lastErr,
          width, height, input, grains, data, promise, imgState, result>>

(***************************************************************************)
(* Bounds                                                                  *)
(***************************************************************************)
MaxCaptures == 3
MaxDim == 5

(***************************************************************************)
(* WebcamComponent                                                         *)
(***************************************************************************)
ImgNull == [cap |-> 0, filtered |-> FALSE]
ErrNull == "null"

\* err.name and err.message of the value passed to onUserMediaError;
\* "" stands for a missing (undefined) or empty property.
ErrNames == {"NotAllowedError", "NotFoundError", "NotReadableError",
             "OverconstrainedError", "AbortError", ""}
ErrMessages == {"", "Starting videoinput failed"}
Errs == [name : ErrNames, message : ErrMessages]

PermissionDeniedMsg ==
    "Camera permission denied. Please allow camera access in your browser settings."
NoCameraMsg == "No camera found or camera is in use by another application."
ConstraintsMsg == "Your camera does not support the requested video constraints."

\* `Camera error: ${err.message || err.name || "Unknown error"}`
OtherErrorMsg(err) ==
    "Camera error: " \o (IF err.message # "" THEN err.message
                         ELSE IF err.name # "" THEN err.name
                         ELSE "Unknown error")

\* Mutant of ErrorMessage: NotReadableError is not matched by the second branch.
ErrorMessage_NotReadableFallsThrough(err) ==
    IF err.name = "NotAllowedError" THEN PermissionDeniedMsg
    ELSE IF err.name = "NotFoundError" THEN NoCameraMsg
    ELSE IF err.name = "OverconstrainedError" THEN ConstraintsMsg
    ELSE OtherErrorMsg(err)

ErrorMessage(err) ==
    IF err.name = "NotAllowedError" THEN PermissionDeniedMsg
    ELSE IF err.name = "NotFoundError" \/ err.name = "NotReadableError" THEN NoCameraMsg
    ELSE IF err.name = "OverconstrainedError" THEN ConstraintsMsg
    ELSE OtherErrorMsg(err)

\* The render: <Webcam> is mounted exactly when neither an image nor an
\* error is shown; mounting it starts a new camera acquisition.
Render(img, err, cam) ==
    IF img # ImgNull \/ err # ErrNull THEN "unmounted"
    ELSE IF cam = "unmounted" THEN "acquiring"
    ELSE cam

Pending == {c \in 1..MaxCaptures : runs[c] = "pending"}

UIInit ==
    /\ imgSrc = ImgNull
    /\ error = ErrNull
    /\ webcam = "acquiring"
    /\ runs = [c \in 1..MaxCaptures |-> "none"]
    /\ nextCap = 0
    /\ retakeAt = 0
    /\ lastOp = "init"
    /\ lastErr = [name |-> "", message |-> ""]

\* The camera stream arrives: getScreenshot() can now return a frame.
UserMedia ==
    /\ webcam = "acquiring"
    /\ webcam' = "live"
    /\ lastOp' = "userMedia"
    /\ UNCHANGED <<imgSrc, error, runs, nextCap, retakeAt, lastErr>>

handleUserMediaError_of(err) ==
    /\ webcam = "acquiring"
    /\ error' = ErrorMessage(err)
    /\ webcam' = Render(imgSrc, error', webcam)
    /\ lastOp' = "handleUserMediaError"
    /\ lastErr' = err
    /\ UNCHANGED <<imgSrc, runs, nextCap, retakeAt>>

handleUserMediaError == \E err \in Errs : handleUserMediaError_of(err)

\* Click on "Capture photo" (rendered while imgSrc is falsy).  With a live
\* camera getScreenshot() yields a frame or null; without a mounted Webcam
\* webcamRef.current is null and nothing happens.
Screenshots ==
    IF webcam = "live" /\ nextCap < MaxCaptures THEN {TRUE, FALSE} ELSE {FALSE}

capture ==
    /\ imgSrc = ImgNull
    /\ \E shot \in Screenshots :
        IF shot
        THEN /\ nextCap' = nextCap + 1
             /\ runs' = [runs EXCEPT ![nextCap + 1] = "pending"]
             /\ lastOp' = "capture"
        ELSE /\ lastOp' = "captureNull"
             /\ UNCHANGED <<runs, nextCap>>
    /\ UNCHANGED <<imgSrc, error, webcam, retakeAt, lastErr>>

\* The promise of run c resolves and capture resumes: setImgSrc(filteredImage).
\* filtered = FALSE is the resolve(imageSrc) of a missing 2d context.
FilterResolved(c, filtered) ==
    /\ runs[c] = "pending"
    /\ runs' = [runs EXCEPT ![c] = "resolved"]
    /\ imgSrc' = [cap |-> c, filtered |-> filtered]
    /\ webcam' = Render(imgSrc', error, webcam)
    /\ lastOp' = "filterResolved"
    /\ UNCHANGED <<error, nextCap, retakeAt, lastErr>>

FilterResolve == \E c \in 1..MaxCaptures, f \in BOOLEAN : FilterResolved(c, f)

\* The image of run c fails to load: only onload is set, the promise stays
\* pending for ever.
FilterLoadFails ==
    \E c \in 1..MaxCaptures :
        /\ runs[c] = "pending"
        /\ runs' = [runs EXCEPT ![c] = "stuck"]
        /\ lastOp' = "filterLoadFailed"
        /\ UNCHANGED <<imgSrc, error, webcam, nextCap, retakeAt, lastErr>>

\* Mutant of retake: setError(null) is missing.
retake_KeepsError ==
    /\ imgSrc # ImgNull
    /\ imgSrc' = ImgNull
    /\ webcam' = Render(imgSrc', error, webcam)
    /\ retakeAt' = nextCap
    /\ lastOp' = "retake"
    /\ UNCHANGED <<error, runs, nextCap, lastErr>>

\* Click on "Retake photo" (rendered while imgSrc is truthy).
retake ==
    /\ imgSrc # ImgNull
    /\ imgSrc' = ImgNull
    /\ error' = ErrNull
    /\ webcam' = Render(imgSrc', error', webcam)
    /\ retakeAt' = nextCap
    /\ lastOp' = "retake"
    /\ UNCHANGED <<runs, nextCap, lastErr>>

(***************************************************************************)
(* applyVintageFilter: arithmetic of the stores into imageData.data        *)
(***************************************************************************)
Min(a, b) == IF a < b THEN a ELSE b
Max(a, b) == IF a > b THEN a ELSE b

\* The nearest integer to num/den (den > 0), ties to the even neighbour.
RoundHalfEven(num, den) ==
    LET q == num \div den
        r == num % den
    IN  IF 2 * r < den THEN q
        ELSE IF 2 * r > den THEN q + 1
        ELSE IF q % 2 = 0 THEN q ELSE q + 1

\* data[i] = num/den on a Uint8ClampedArray.
ToUint8Clamp(num, den) == Max(0, Min(255, RoundHalfEven(num, den)))

\* Math.min(255, gray * 0.95 + 5) with gray = r*0.299 + g*0.587 + b*0.114,
\* as a numerator over GreyDen.
GreyDen == 100000
GreyNum(r, g, b) ==
    Min(255 * GreyDen, 95 * (299 * r + 587 * g + 114 * b) + 5 * GreyDen)

\* (Math.random() - 0.5) * grainAmount * grainIntensity is a number of
\* [-15, 15); the draws are sampled in units of 1/GrainDen.
GrainDen == 2
GrainSamples == <<-30, -15, -1, 0, 1, 20, 29>>

\* Mutant of Dist2Num: the centre is taken at ((W-1)/2, (H-1)/2).
Dist2Num_PixelCentre(x, y, W, H) ==
    (2 * x + 1 - W) * (2 * x + 1 - W) * H * H
        + (2 * y + 1 - H) * (2 * y + 1 - H) * W * W

\* distance^2 * (W*H)^2 for dx = (x - W/2)/(W/2), dy = (y - H/2)/(H/2).
Dist2Num(x, y, W, H) ==
    (2 * x - W) * (2 * x - W) * H * H + (2 * y - H) * (2 * y - H) * W * W

\* a >= b * sqrt(N) and a = b * sqrt(N), for b >= 0 and N >= 0.
GeqSqrt(a, b, N) ==
    IF b = 0 \/ N = 0 THEN a >= 0
    ELSE IF a < 0 THEN FALSE
    ELSE LET c == a \div b
             r == a % b
         IN  IF c * c >= N THEN TRUE
             ELSE IF (c + 1) * (c + 1) <= N THEN FALSE
             ELSE r * (2 * c * b + r) >= (N - c * c) * b * b

EqSqrt(a, b, N) ==
    IF b = 0 \/ N = 0 THEN a = 0
    ELSE a >= 0 /\ a % b = 0 /\ (a \div b) * (a \div b) = N

\* vignette = Math.max(0, 1 - distance * 0.6) = 1 - sqrt(VignetteDrop) / (5*W*H):
\* the factor is 1 when VignetteDrop is 0, 0 when it is (5*W*H)^2, and
\* strictly smaller the larger VignetteDrop is.
VignetteDrop(x, y, W, H) ==
    Min(25 * W * W * H * H, 9 * Dist2Num(x, y, W, H))

VignetteIsZero(x, y, W, H) == VignetteDrop(x, y, W, H) = 25 * W * W * H * H

\* v * vignette >= k - 1/2, for the stored channel value v in 0..255:
\* with m = 5*W*H and s = sqrt(Dist2Num), v * (m - 3s) / m >= (2k - 1) / 2.
VignetteGeq(v, k, x, y, W, H) ==
    GeqSqrt(5 * W * H * (2 * v - 2 * k + 1), 6 * v, Dist2Num(x, y, W, H))

RECURSIVE VignetteSearch(_, _, _, _, _, _, _)
\* The largest k of lo..hi with VignetteGeq (it holds of lo).
VignetteSearch(v, lo, hi, x, y, W, H) ==
    IF lo = hi THEN lo
    ELSE LET mid == (lo + hi + 1) \div 2
         IN  IF VignetteGeq(v, mid, x, y, W, H)
             THEN VignetteSearch(v, mid, hi, x, y, W, H)
             ELSE VignetteSearch(v, lo, mid - 1, x, y, W, H)

\* data[i] *= vignette: the stored value v becomes v * vignette, rounded.
VignetteStore(v, x, y, W, H) ==
    IF VignetteIsZero(x, y, W, H) THEN 0
    ELSE LET k == VignetteSearch(v, 0, v, x, y, W, H)
             tie == EqSqrt(5 * W * H * (2 * v - 2 * k + 1), 6 * v,
                           Dist2Num(x, y, W, H))
         IN  ToUint8Clamp(IF tie /\ k % 2 = 1 THEN k - 1 ELSE k, 1)

(***************************************************************************)
(* applyVintageFilter: the passes over the buffer, indexed 0..length-1    *)
(***************************************************************************)
IsAlpha(i) == i % 4 = 3

GreyPass(d) ==
    [i \in DOMAIN d |->
        IF IsAlpha(i) THEN d[i]
        ELSE LET p == i - (i % 4)
             IN  ToUint8Clamp(GreyNum(d[p], d[p + 1], d[p + 2]), GreyDen)]

\* Mutant of ContrastPass: the contrast result is rounded but not clamped.
ContrastPass_NoClamp(d) ==
    [i \in DOMAIN d |->
        IF IsAlpha(i) THEN d[i] ELSE RoundHalfEven(3 * d[i] - 64, 2)]

\* contrastFactor = 1.5, contrastOffset = 128 * (1 - 1.5) / 2 = -32
ContrastPass(d) ==
    [i \in DOMAIN d |->
        IF IsAlpha(i) THEN d[i] ELSE ToUint8Clamp(3 * d[i] - 64, 2)]

GrainPass(d, gr) ==
    [i \in DOMAIN d |->
        IF IsAlpha(i) THEN d[i]
        ELSE ToUint8Clamp(GrainDen * d[i] + gr[i \div 4], GrainDen)]

VignettePass(d, W, H) ==
    [i \in DOMAIN d |->
        IF IsAlpha(i) THEN d[i]
        ELSE LET pixelIndex == i \div 4
                 x == pixelIndex % W
                 y == pixelIndex \div W
             IN  VignetteStore(d[i], x, y, W, H)]

ClampPass(d) ==
    [i \in DOMAIN d |-> ToUint8Clamp(Max(0, Min(255, d[i])), 1)]

\* Mutant of VintagePixels: the passes run on a buffer whose stores round
\* without clamping, and the clamp loop is missing.
VintagePixels_NoClamp(d, gr, W, H) ==
    LET c == ContrastPass_NoClamp(GreyPass(d))
        n == [i \in DOMAIN d |->
                IF IsAlpha(i) THEN c[i]
                ELSE RoundHalfEven(GrainDen * c[i] + gr[i \div 4], GrainDen)]
    IN  [i \in DOMAIN d |->
            IF IsAlpha(i) \/ n[i] < 0 \/ n[i] > 255 THEN n[i]
            ELSE VignetteStore(n[i], (i \div 4) % W, (i \div 4) \div W, W, H)]

VintagePixels(d, gr, W, H) ==
    ClampPass(VignettePass(GrainPass(ContrastPass(GreyPass(d)), gr), W, H))

(***************************************************************************)
(* applyVintageFilter: one call                                            *)
(***************************************************************************)
\* Colours of the decoded images.
Palette == <<
    <<0, 0, 0>>, <<255, 255, 255>>, <<100, 100, 100>>, <<200, 200, 200>>,
    <<10, 10, 10>>, <<255, 0, 0>>, <<0, 0, 255>>, <<12, 200, 77>> >>

\* A decoded W x H image: pixel p has colour Palette[(offset + p) mod Len], alpha 255.
DecodedImage(W, H, offset) ==
    [i \in 0..(4 * W * H - 1) |->
        IF IsAlpha(i) THEN 255
        ELSE Palette[((offset + (i \div 4)) % Len(Palette)) + 1][(i % 4) + 1]]

\* The draws of one run of the grain loop: pixel p gets sample (seed + p).
GrainDraws(W, H, seed) ==
    [p \in 0..(W * H - 1) |-> GrainSamples[((seed + p) % Len(GrainSamples)) + 1]]

NoData == [i \in {} |-> 0]

FilterIdle ==
    /\ width = 1
    /\ height = 1
    /\ input = NoData
    /\ grains = NoData
    /\ data = NoData
    /\ promise = "pending"
    /\ imgState = "loading"
    /\ result = "none"

\* img.src = imageSrc has been assigned: the promise is pending.
FilterInit ==
    /\ UIInit
    /\ \E W \in 1..MaxDim, H \in 1..MaxDim, offset \in 0..(Len(Palette) - 1) :
        /\ width = W
        /\ height = H
        /\ input = DecodedImage(W, H, offset)
    /\ grains = NoData
    /\ data = NoData
    /\ promise = "pending"
    /\ imgState = "loading"
    /\ result = "none"

\* img.onload
OnLoad ==
    /\ imgState = "loading"
    /\ imgState' = "loaded"
    /\ promise' = "resolved"
    /\ \E ctx \in BOOLEAN, seed \in 0..(Len(GrainSamples) - 1) :
        IF ~ctx
        THEN /\ result' = "original"
             /\ UNCHANGED <<grains, data>>
        ELSE /\ grains' = GrainDraws(width, height, seed)
             /\ data' = VintagePixels(input, grains', width, height)
             /\ result' = "filtered"
    /\ UNCHANGED <<width, height, input>>

\* The image fails to load.  No onerror handler is installed: nothing runs.
LoadError ==
    /\ imgState = "loading"
    /\ imgState' = "error"
    /\ UNCHANGED <<width, height, input, grains, data, promise, result>>

FilterNext ==
    \/ OnLoad /\ UNCHANGED uiVars
    \/ LoadError /\ UNCHANGED uiVars

FilterSpec == FilterInit /\ [][FilterNext]_vars

Init == UIInit /\ FilterIdle

Next ==
    \/ UserMedia /\ UNCHANGED filterVars
    \/ handleUserMediaError /\ UNCHANGED filterVars
    \/ capture /\ UNCHANGED filterVars
    \/ FilterResolve /\ UNCHANGED filterVars
    \/ FilterLoadFails /\ UNCHANGED filterVars
    \/ retake /\ UNCHANGED filterVars

Spec == Init /\ [][Next]_vars

(***************************************************************************)
(* Claims about WebcamComponent (Spec)                                     *)
(***************************************************************************)

\* C3: right after retake, imgSrc and error are both null and the live
\* webcam feed is rendered again.
Thm_C3_RetakeResets ==
    lastOp = "retake" =>
        (imgSrc = ImgNull /\ error = ErrNull /\ webcam = "acquiring")

\* C3 witness: a retake has run in a session in which a camera error had
\* been reported.
Wit_C3_RetakeAfterError ==
    /\ lastOp = "retake"
    /\ lastErr.name = "NotAllowedError"
    /\ imgSrc = ImgNull
    /\ error = ErrNull

\* C4 as claimed: at most one applyVintageFilter promise is pending at any time.
Cex_C4_AtMostOnePending == Cardinality(Pending) <= 1

OtherDetails == ((ErrNames \cup ErrMessages) \ {""}) \cup {"Unknown error"}

\* C5: right after handleUserMediaError(err), the message is chosen by
\* err.name: NotAllowedError gives the permission-denied message,
\* NotFoundError and NotReadableError the no-camera message,
\* OverconstrainedError the constraints message, any other name a
\* "Camera error: ..." message; the four messages are pairwise distinct.
Thm_C5_ErrorMessages ==
    lastOp = "handleUserMediaError" =>
        /\ lastErr.name = "NotAllowedError" => error = PermissionDeniedMsg
        /\ lastErr.name \in {"NotFoundError", "NotReadableError"} =>
               error = NoCameraMsg
        /\ lastErr.name = "OverconstrainedError" => error = ConstraintsMsg
        /\ lastErr.name \notin {"NotAllowedError", "NotFoundError",
                                "NotReadableError", "OverconstrainedError"} =>
               /\ \E d \in OtherDetails : error = "Camera error: " \o d
               /\ error \notin {PermissionDeniedMsg, NoCameraMsg, ConstraintsMsg}
        /\ PermissionDeniedMsg # NoCameraMsg
        /\ PermissionDeniedMsg # ConstraintsMsg
        /\ NoCameraMsg # ConstraintsMsg

\* C5 witness: the camera was in use by another application.
Wit_C5_NotReadable ==
    /\ lastOp = "handleUserMediaError"
    /\ lastErr.name = "NotReadableError"
    /\ error = NoCameraMsg

\* C8 as claimed: once an error message is displayed (error set, no image),
\* no step changes what is displayed and the Webcam is not mounted again.
Cex_C8_ErrorStays ==
    [][(error # ErrNull /\ imgSrc = ImgNull) =>
        (error' = error /\ imgSrc' = ImgNull /\ webcam' = "unmounted")]_vars

\* C9 as claimed: imgSrc and error are never both non-null.
Cex_C9_ImageXorError == ~(imgSrc # ImgNull /\ error # ErrNull)

\* C10 as claimed: the image displayed is never the result of a capture
\* issued before the most recent retake.
Cex_C10_NoStaleImage == imgSrc # ImgNull => imgSrc.cap > retakeAt

(***************************************************************************)
(* Claims about applyVintageFilter (FilterSpec)                            *)
(***************************************************************************)
Pixels == 0..(width * height - 1)
Channels == {0, 1, 2}

\* C1: every channel value written back with putImageData is an integer
\* of 0..255.
Thm_C1_OutputInRange ==
    result = "filtered" => \A i \in DOMAIN data : data[i] \in 0..255

\* C1 witness: a filtered buffer in which one colour channel ends at 0 and
\* another at 255.
Wit_C1_Extremes ==
    /\ result = "filtered"
    /\ \E p \in Pixels, q \in Pixels :
        /\ input[4 * p] = 0 /\ data[4 * p] = 0
        /\ input[4 * q] = 255 /\ data[4 * q] = 255

\* C2 as claimed: when the image load fails the promise is resolved with
\* the original image.
Cex_C2_LoadErrorResolves ==
    imgState = "error" => (promise = "resolved" /\ result = "original")

Corners == {<<0, 0>>, <<width - 1, 0>>, <<0, height - 1>>,
            <<width - 1, height - 1>>}
CentreDrop == VignetteDrop(width \div 2, height \div 2, width, height)

\* C6 as claimed: for W, H >= 2 the centre pixel (floor(W/2), floor(H/2))
\* has vignette factor exactly 1 and each corner a strictly smaller factor.
Cex_C6_CentreOneCornersDarker ==
    (result = "filtered" /\ width >= 2 /\ height >= 2) =>
        /\ CentreDrop = 0
        /\ \A c \in Corners :
               VignetteDrop(c[1], c[2], width, height) > CentreDrop

\* C6 amended: for W, H >= 2 the centre pixel's factor is exactly 1 when W
\* and H are both even and strictly below 1 otherwise; no corner has a
\* larger factor than the centre pixel, and every corner has a strictly
\* smaller one when W >= 4 or H >= 4.
Thm_C6_Vignette ==
    (result = "filtered" /\ width >= 2 /\ height >= 2) =>
        /\ (CentreDrop = 0) <=> (width % 2 = 0 /\ height % 2 = 0)
        /\ \A c \in Corners :
               VignetteDrop(c[1], c[2], width, height) >= CentreDrop
        /\ (width >= 4 \/ height >= 4) =>
               \A c \in Corners :
                   VignetteDrop(c[1], c[2], width, height) > CentreDrop

\* C6 witness: a filtered image of odd width and even height, both >= 4.
Wit_C6_OddByEven ==
    /\ result = "filtered"
    /\ width = 5
    /\ height = 4
    /\ CentreDrop > 0

\* Numbers beyond 32 bits: little-endian sequences of base-10000 limbs.
BigOf(n) == <<n % 10000, (n \div 10000) % 10000, n \div 100000000>>
Limb(x, i) == IF i >= 1 /\ i <= Len(x) THEN x[i] ELSE 0

RECURSIVE BigColumn(_, _, _, _)
BigColumn(x, y, j, i) ==
    IF i > j THEN 0
    ELSE Limb(x, i) * Limb(y, j + 1 - i) + BigColumn(x, y, j, i + 1)

RECURSIVE BigMulFrom(_, _, _, _)
BigMulFrom(x, y, j, carry) ==
    IF j > Len(x) + Len(y) THEN <<>>
    ELSE LET t == BigColumn(x, y, j, 1) + carry
         IN  <<t % 10000>> \o BigMulFrom(x, y, j + 1, t \div 10000)

BigMul(x, y) == BigMulFrom(x, y, 1, 0)

RECURSIVE BigCmpFrom(_, _, _)
BigCmpFrom(x, y, i) ==
    IF i = 0 THEN 0
    ELSE IF Limb(x, i) > Limb(y, i) THEN 1
    ELSE IF Limb(x, i) < Limb(y, i) THEN -1
    ELSE BigCmpFrom(x, y, i - 1)

BigCmp(x, y) == BigCmpFrom(x, y, Max(Len(x), Len(y)))

\* The unclamped chain before the vignette,
\* (min(255, 0.95*Y + 5) * 1.5 - 32) + grain, as a numerator over ChainDen.
ChainDen == 2 * GreyDen
ChainNum(r, g, b, grain) ==
    3 * GreyNum(r, g, b) - 64 * GreyDen + GreyDen * grain

\* The sign of  (un / ChainDen) * vignette - j / 2  for un > 0: with
\* m = 5*W*H and s = sqrt(Dist2Num) it is the sign of
\* m * (2*un - j*ChainDen) - 6*un*s.
ChainCmp(un, j, x, y, W, H) ==
    IF VignetteIsZero(x, y, W, H) THEN (IF j > 0 THEN -1 ELSE IF j = 0 THEN 0 ELSE 1)
    ELSE LET t == 2 * un - j * ChainDen
             lhs == BigMul(BigMul(BigOf(5 * W * H), BigOf(5 * W * H)),
                           BigMul(BigOf(t), BigOf(t)))
             rhs == BigMul(BigMul(BigOf(6 * un), BigOf(6 * un)),
                           BigOf(Dist2Num(x, y, W, H)))
         IN  IF t < 0 THEN -1 ELSE BigCmp(lhs, rhs)

\* f is the clamp to the integers 0..255 of (un / ChainDen) * vignette.
IsClampOfChain(f, un, x, y, W, H) ==
    IF un <= 0 THEN f = 0
    ELSE LET lo == ChainCmp(un, 2 * f - 1, x, y, W, H)
             hi == ChainCmp(un, 2 * f + 1, x, y, W, H)
         IN  /\ f \in 0..255
             /\ f = 0 \/ lo = 1 \/ (lo = 0 /\ f % 2 = 0)
             /\ f = 255 \/ hi = -1 \/ (hi = 0 /\ f % 2 = 0)

\* C7 as claimed: clamping happens once, at the end: every final channel
\* value is the clamp to 0..255 of the unclamped chain
\* ((min(255, 0.95*Y + 5) * 1.5 - 32) + grain) * vignette.
Cex_C7_ClampOnlyAtEnd ==
    result = "filtered" =>
        \A p \in Pixels, ch \in Channels :
            IsClampOfChain(data[4 * p + ch],
                           ChainNum(input[4 * p], input[4 * p + 1],
                                    input[4 * p + 2], grains[p]),
                           p % width, p \div width, width, height)

\* C7 amended: every pass stores into the 8-bit clamped buffer, so each
\* stage's result is rounded to the nearest integer and clamped to 0..255
\* before the next stage reads it: every final colour channel equals
\* S(S(S(S(min(255, 0.95*Y + 5)) * 1.5 - 32) + grain) * vignette) where S
\* is that store conversion, and the alpha channel is unchanged.
Thm_C7_ClampAtEveryStore ==
    result = "filtered" =>
        \A p \in Pixels :
            LET grey == ToUint8Clamp(GreyNum(input[4 * p], input[4 * p + 1],
                                             input[4 * p + 2]), GreyDen)
                contrast == ToUint8Clamp(3 * grey - 64, 2)
                grained == ToUint8Clamp(GrainDen * contrast + grains[p], GrainDen)
                final == VignetteStore(grained, p % width, p \div width,
                                       width, height)
            IN  /\ \A ch \in Channels : data[4 * p + ch] = final
                /\ data[4 * p + 3] = input[4 * p + 3]

\* C7 witness: a black pixel at the centre of an image of even size with a
\* positive grain draw: its contrast result (-24.5) was stored as 0, so the
\* grain shows in the output, where the unclamped chain would end at 0.
Wit_C7_BlackPixelKeepsGrain ==
    /\ result = "filtered"
    /\ width % 2 = 0 /\ height % 2 = 0
    /\ LET p == (height \div 2) * width + (width \div 2)
       IN  /\ input[4 * p] = 0 /\ input[4 * p + 1] = 0 /\ input[4 * p + 2] = 0
           /\ grains[p] = 20
           /\ data[4 * p] = 10

====
